---- MODULE Spec2Model ----
(***************************************************************************)
(* Model of provisioned-entitlement-stripper (src/src/main.rs).            *)
(*                                                                         *)
(* Strings that the program compares or orders (entitlement keys) are      *)
(* sequences of UTF-8 bytes, so that Rust's byte-wise `str` ordering and    *)
(* equality are computed, not assumed.  A plist::Value is a record          *)
(* [type, dict, scalar]; a plist::Dictionary is a sequence of entries       *)
(* [key, value] with pairwise distinct keys, in insertion order.            *)
(***************************************************************************)
EXTENDS Integers, Sequences, FiniteSets, TLC

VARIABLES
  pc,            \* index of the call main is at, in the arm of its command
  exit,          \* "running", or how main returned: "ok" or "err"
  command,       \* cli.command: "Strip", "DryRun" or "Completions"
  output,        \* what running codesign yields: see Outputs
  spawned,       \* number of codesign processes run so far
  parsed,        \* number of plist::from_bytes calls so far
  entitlements,  \* the local `entitlements` of main (NoValue before it is bound)
  provisioned_entitlements, \* the local of the DryRun arm
  err,           \* the anyhow error chain main returns, outermost context first
  file,          \* the file at output_path: [exists, content]
  fileOps,       \* operations performed on output_path, in order
  printed        \* lines written to standard output

vars == << pc, exit, command, output, spawned, parsed, entitlements,
           provisioned_entitlements, err, file, fileOps, printed >>

-----------------------------------------------------------------------------
(* Bounds of the model *)

\* longest dictionary the inspector emits in the enumerated inputs
MaxLen == 3

-----------------------------------------------------------------------------
(* Entitlement keys, as UTF-8 bytes *)

\* "beta-reports-active"  (main.rs line 40)
beta_reports_active ==
  <<98, 101, 116, 97, 45, 114, 101, 112, 111, 114, 116, 115, 45, 97, 99,
    116, 105, 118, 101>>
\* "com.apple.application-identifier"  (main.rs line 41)
com_apple_application_identifier ==
  <<99, 111, 109, 46, 97, 112, 112, 108, 101, 46, 97, 112, 112, 108, 105,
    99, 97, 116, 105, 111, 110, 45, 105, 100, 101, 110, 116, 105, 102, 105,
    101, 114>>
\* "com.apple.developer.aps-environment"  (main.rs line 42)
com_apple_developer_aps_environment ==
  <<99, 111, 109, 46, 97, 112, 112, 108, 101, 46, 100, 101, 118, 101, 108,
    111, 112, 101, 114, 46, 97, 112, 115, 45, 101, 110, 118, 105, 114, 111,
    110, 109, 101, 110, 116>>
\* "com.apple.developer.associated-domains"  (main.rs line 43)
com_apple_developer_associated_domains ==
  <<99, 111, 109, 46, 97, 112, 112, 108, 101, 46, 100, 101, 118, 101, 108,
    111, 112, 101, 114, 46, 97, 115, 115, 111, 99, 105, 97, 116, 101, 100,
    45, 100, 111, 109, 97, 105, 110, 115>>
\* "com.apple.developer.icloud-container-environment"  (main.rs line 44)
com_apple_developer_icloud_container_environment ==
  <<99, 111, 109, 46, 97, 112, 112, 108, 101, 46, 100, 101, 118, 101, 108,
    111, 112, 101, 114, 46, 105, 99, 108, 111, 117, 100, 45, 99, 111, 110,
    116, 97, 105, 110, 101, 114, 45, 101, 110, 118, 105, 114, 111, 110, 109,
    101, 110, 116>>
\* "com.apple.developer.icloud-container-identifiers"  (main.rs line 45)
com_apple_developer_icloud_container_identifiers ==
  <<99, 111, 109, 46, 97, 112, 112, 108, 101, 46, 100, 101, 118, 101, 108,
    111, 112, 101, 114, 46, 105, 99, 108, 111, 117, 100, 45, 99, 111, 110,
    116, 97, 105, 110, 101, 114, 45, 105, 100, 101, 110, 116, 105, 102, 105,
    101, 114, 115>>
\* "com.apple.developer.icloud-services"  (main.rs line 46)
com_apple_developer_icloud_services ==
  <<99, 111, 109, 46, 97, 112, 112, 108, 101, 46, 100, 101, 118, 101, 108,
    111, 112, 101, 114, 46, 105, 99, 108, 111, 117, 100, 45, 115, 101, 114,
    118, 105, 99, 101, 115>>
\* "com.apple.developer.team-identifier"  (main.rs line 47)
com_apple_developer_team_identifier ==
  <<99, 111, 109, 46, 97, 112, 112, 108, 101, 46, 100, 101, 118, 101, 108,
    111, 112, 101, 114, 46, 116, 101, 97, 109, 45, 105, 100, 101, 110, 116,
    105, 102, 105, 101, 114>>
\* "com.apple.developer.ubiquity-container-identifiers"  (main.rs line 48)
com_apple_developer_ubiquity_container_identifiers ==
  <<99, 111, 109, 46, 97, 112, 112, 108, 101, 46, 100, 101, 118, 101, 108,
    111, 112, 101, 114, 46, 117, 98, 105, 113, 117, 105, 116, 121, 45, 99,
    111, 110, 116, 97, 105, 110, 101, 114, 45, 105, 100, 101, 110, 116, 105,
    102, 105, 101, 114, 115>>
\* "com.apple.developer.ubiquity-kvstore-identifier"  (main.rs line 49)
com_apple_developer_ubiquity_kvstore_identifier ==
  <<99, 111, 109, 46, 97, 112, 112, 108, 101, 46, 100, 101, 118, 101, 108,
    111, 112, 101, 114, 46, 117, 98, 105, 113, 117, 105, 116, 121, 45, 107,
    118, 115, 116, 111, 114, 101, 45, 105, 100, 101, 110, 116, 105, 102,
    105, 101, 114>>
\* "com.apple.developer.weatherkit"  (main.rs line 50)
com_apple_developer_weatherkit ==
  <<99, 111, 109, 46, 97, 112, 112, 108, 101, 46, 100, 101, 118, 101, 108,
    111, 112, 101, 114, 46, 119, 101, 97, 116, 104, 101, 114, 107, 105,
    116>>
\* "com.apple.security.application-groups"  (main.rs line 51)
com_apple_security_application_groups ==
  <<99, 111, 109, 46, 97, 112, 112, 108, 101, 46, 115, 101, 99, 117, 114,
    105, 116, 121, 46, 97, 112, 112, 108, 105, 99, 97, 116, 105, 111, 110,
    45, 103, 114, 111, 117, 112, 115>>
\* "keychain-access-groups"  (main.rs line 52)
keychain_access_groups ==
  <<107, 101, 121, 99, 104, 97, 105, 110, 45, 97, 99, 99, 101, 115, 115, 45,
    103, 114, 111, 117, 112, 115>>

\* keys of the test fixture (main.rs lines 167, 176) that are not provisioned
\* "com.apple.security.automation.apple-events"
com_apple_security_automation_apple_events ==
  <<99, 111, 109, 46, 97, 112, 112, 108, 101, 46, 115, 101, 99, 117, 114,
    105, 116, 121, 46, 97, 117, 116, 111, 109, 97, 116, 105, 111, 110, 46,
    97, 112, 112, 108, 101, 45, 101, 118, 101, 110, 116, 115>>
\* "com.apple.security.device.audio-input"
com_apple_security_device_audio_input ==
  <<99, 111, 109, 46, 97, 112, 112, 108, 101, 46, 115, 101, 99, 117, 114,
    105, 116, 121, 46, 100, 101, 118, 105, 99, 101, 46, 97, 117, 100, 105,
    111, 45, 105, 110, 112, 117, 116>>
\* "com.apple.security.device.camera"
com_apple_security_device_camera ==
  <<99, 111, 109, 46, 97, 112, 112, 108, 101, 46, 115, 101, 99, 117, 114,
    105, 116, 121, 46, 100, 101, 118, 105, 99, 101, 46, 99, 97, 109, 101,
    114, 97>>

\* faulty variant: "keychain-access-groups" inserted before the com.apple.security key
PROVISIONED_ENTITLEMENTS_misplaced ==
  << beta_reports_active,
     com_apple_application_identifier,
     com_apple_developer_aps_environment,
     com_apple_developer_associated_domains,
     com_apple_developer_icloud_container_environment,
     com_apple_developer_icloud_container_identifiers,
     com_apple_developer_icloud_services,
     com_apple_developer_team_identifier,
     com_apple_developer_ubiquity_container_identifiers,
     com_apple_developer_ubiquity_kvstore_identifier,
     com_apple_developer_weatherkit,
     keychain_access_groups,
     com_apple_security_application_groups >>

PROVISIONED_ENTITLEMENTS ==
  << beta_reports_active,
     com_apple_application_identifier,
     com_apple_developer_aps_environment,
     com_apple_developer_associated_domains,
     com_apple_developer_icloud_container_environment,
     com_apple_developer_icloud_container_identifiers,
     com_apple_developer_icloud_services,
     com_apple_developer_team_identifier,
     com_apple_developer_ubiquity_container_identifiers,
     com_apple_developer_ubiquity_kvstore_identifier,
     com_apple_developer_weatherkit,
     com_apple_security_application_groups,
     keychain_access_groups >>

ProvisionedKeySet == { PROVISIONED_ENTITLEMENTS[i] : i \in 1..Len(PROVISIONED_ENTITLEMENTS) }

-----------------------------------------------------------------------------
(* Rust's ordering of str: byte-wise lexicographic *)

Min(a, b) == IF a <= b THEN a ELSE b

\* a <= b for two strings
StrLe(a, b) ==
  LET n == Min(Len(a), Len(b))
      differ == { i \in 1..n : a[i] # b[i] }
  IN  IF differ = {}
        THEN Len(a) <= Len(b)
        ELSE LET i == CHOOSE j \in differ : \A k \in differ : j <= k
             IN  a[i] < b[i]

\* slice::is_sorted: every adjacent pair satisfies a <= b
is_sorted(s) == \A i \in 1..(Len(s) - 1) : StrLe(s[i], s[i + 1])

\* the two tests of the constant
test_provisioned_entitlements_sorted == is_sorted(PROVISIONED_ENTITLEMENTS)

test_provisioned_entitlements_unique ==
  Cardinality(ProvisionedKeySet) = Len(PROVISIONED_ENTITLEMENTS)

-----------------------------------------------------------------------------
(* plist::Value and plist::Dictionary *)

PlistValue(t, d, s) == [type |-> t, dict |-> d, scalar |-> s]

Dictionary(d) == PlistValue("Dictionary", d, "")
Array         == PlistValue("Array", <<>>, "")
Boolean       == PlistValue("Boolean", <<>>, "true")
String(s)     == PlistValue("String", <<>>, s)
\* no value bound yet
NoValue       == PlistValue("None", <<>>, "")
\* plist::from_bytes returned Err
ParseError    == PlistValue("ParseError", <<>>, "")

Entry(k, v) == [key |-> k, value |-> v]

Keys(d) == [i \in 1..Len(d) |-> d[i].key]

KeySet(d) == { d[i].key : i \in 1..Len(d) }

\* faulty variant of as_dictionary: reads any other root
\* as an empty dictionary
as_dictionary_or_default(value) ==
  [some |-> TRUE, dict |-> IF value.type = "Dictionary" THEN value.dict ELSE <<>>]

\* Value::as_dictionary / as_dictionary_mut: Some only for a Dictionary root
as_dictionary(value) ==
  IF value.type = "Dictionary"
    THEN [some |-> TRUE, dict |-> value.dict]
    ELSE [some |-> FALSE, dict |-> <<>>]

\* position of key in the dictionary, 0 when absent
get_index_of(d, key) ==
  IF \E i \in 1..Len(d) : d[i].key = key
    THEN CHOOSE i \in 1..Len(d) : d[i].key = key
    ELSE 0

contains_key(d, key) == get_index_of(d, key) # 0

Get(d, key) == d[get_index_of(d, key)].value

\* faulty variant: the search misses the last slot, so a key stored there stays
Dictionary_remove_miss_last(d, key) ==
  LET i == get_index_of(d, key)
      n == Len(d)
  IN  IF i = 0 \/ i = n THEN d
      ELSE [j \in 1..(n - 1) |-> IF j = i THEN d[n] ELSE d[j]]

\* faulty variant: the last key moves into the freed slot but the slot keeps its value
Dictionary_remove_keep_value(d, key) ==
  LET i == get_index_of(d, key)
      n == Len(d)
  IN  IF i = 0 THEN d
      ELSE [j \in 1..(n - 1) |->
              IF j = i THEN Entry(d[n].key, d[i].value) ELSE d[j]]

\* faulty variant: the first entry, not the last, is moved into the freed slot
Dictionary_remove_swap_first(d, key) ==
  LET i == get_index_of(d, key)
      n == Len(d)
  IN  IF i = 0 THEN d
      ELSE [j \in 1..(n - 1) |-> IF j + 1 = i THEN d[1] ELSE d[j + 1]]

\* Dictionary::remove: the entry is taken out by moving the last entry into
\* its slot (the order the test at main.rs:170 expects); absent key: no change
Dictionary_remove(d, key) ==
  LET i == get_index_of(d, key)
      n == Len(d)
  IN  IF i = 0 THEN d
      ELSE [j \in 1..(n - 1) |-> IF j = i THEN d[n] ELSE d[j]]

-----------------------------------------------------------------------------
(* anyhow errors: a chain of contexts, outermost first *)

Msg(m) == [msg |-> m, status |-> 0, stdout |-> <<>>, stderr |-> <<>>]

NotADictionary        == "Entitlements is not a dictionary"
ExecFailed            == "Failed to execute codesign"
StdoutNotUtf8         == "codesign stdout is not valid UTF-8"
StderrNotUtf8         == "codesign stderr is not valid UTF-8"
InspectionFailed      == "codesign failed with status"
MalformedEntitlements == "Failed to parse entitlements plist from codesign output"
GetFailed             == "Failed to get entitlements from app"
RemoveFailed          == "Failed to remove provisioned entitlements"
ListFailed            == "Failed to get provisioned entitlements"
CreateFailed          == "Failed to create output file"
WriteFailed           == "Failed to write stripped entitlements to file"

-----------------------------------------------------------------------------
(* The Entitlement Filter *)

\* the for loop of remove_provisioned_entitlements from its i-th key on
RECURSIVE remove_loop(_, _)
remove_loop(dictionary, i) ==
  IF i > Len(PROVISIONED_ENTITLEMENTS) THEN dictionary
  ELSE remove_loop(Dictionary_remove(dictionary, PROVISIONED_ENTITLEMENTS[i]), i + 1)

\* faulty variant: the loop returns after the first key it removes
remove_provisioned_entitlements_first_only(value) ==
  LET dictionary == as_dictionary(value)
      present == { i \in 1..Len(PROVISIONED_ENTITLEMENTS) :
                     contains_key(dictionary.dict, PROVISIONED_ENTITLEMENTS[i]) }
  IN  IF ~dictionary.some
        THEN [ok |-> FALSE, err |-> <<Msg(NotADictionary)>>, entitlements |-> value]
      ELSE IF present = {}
        THEN [ok |-> TRUE, err |-> <<>>, entitlements |-> value]
      ELSE LET i == CHOOSE j \in present : \A k \in present : j <= k
           IN  [ok |-> TRUE, err |-> <<>>,
                entitlements |->
                  Dictionary(Dictionary_remove(dictionary.dict, PROVISIONED_ENTITLEMENTS[i]))]

\* remove_provisioned_entitlements(&mut entitlements): the result and the
\* value the argument holds afterwards
remove_provisioned_entitlements(value) ==
  LET dictionary == as_dictionary(value)
  IN  IF ~dictionary.some
        THEN [ok |-> FALSE, err |-> <<Msg(NotADictionary)>>, entitlements |-> value]
        ELSE [ok |-> TRUE, err |-> <<>>,
              entitlements |-> Dictionary(remove_loop(dictionary.dict, 1))]

\* the for loop of get_provisioned_entitlements from its i-th key on
RECURSIVE list_loop(_, _, _)
list_loop(dictionary, i, provisioned) ==
  IF i > Len(PROVISIONED_ENTITLEMENTS) THEN provisioned
  ELSE list_loop(dictionary, i + 1,
                 IF contains_key(dictionary, PROVISIONED_ENTITLEMENTS[i])
                   THEN Append(provisioned, PROVISIONED_ENTITLEMENTS[i])
                   ELSE provisioned)

\* faulty variant: the dictionary is walked instead of the constant, so the result
\* comes in the dictionary's order
get_provisioned_entitlements_dict_order(value) ==
  LET dictionary == as_dictionary(value)
  IN  IF ~dictionary.some
        THEN [ok |-> FALSE, err |-> <<Msg(NotADictionary)>>, value |-> <<>>]
        ELSE [ok |-> TRUE, err |-> <<>>,
              value |-> SelectSeq(Keys(dictionary.dict),
                                  LAMBDA k : k \in ProvisionedKeySet)]

\* get_provisioned_entitlements(&entitlements)
get_provisioned_entitlements(value) ==
  LET dictionary == as_dictionary(value)
  IN  IF ~dictionary.some
        THEN [ok |-> FALSE, err |-> <<Msg(NotADictionary)>>, value |-> <<>>]
        ELSE [ok |-> TRUE, err |-> <<>>, value |-> list_loop(dictionary.dict, 1, <<>>)]

-----------------------------------------------------------------------------
(* The Entitlement Extractor *)

\* String::from_utf8: is b[i..] well-formed UTF-8
RECURSIVE utf8_valid_from(_, _)
utf8_valid_from(b, i) ==
  IF i > Len(b) THEN TRUE
  ELSE LET c == b[i]
           cont(j, lo, hi) == j <= Len(b) /\ b[j] >= lo /\ b[j] <= hi
       IN  IF c < 128 THEN utf8_valid_from(b, i + 1)
           ELSE IF c >= 194 /\ c <= 223
             THEN cont(i + 1, 128, 191) /\ utf8_valid_from(b, i + 2)
           ELSE IF c >= 224 /\ c <= 239
             THEN /\ cont(i + 1, IF c = 224 THEN 160 ELSE 128,
                                 IF c = 237 THEN 159 ELSE 191)
                  /\ cont(i + 2, 128, 191)
                  /\ utf8_valid_from(b, i + 3)
           ELSE IF c >= 240 /\ c <= 244
             THEN /\ cont(i + 1, IF c = 240 THEN 144 ELSE 128,
                                 IF c = 244 THEN 143 ELSE 191)
                  /\ cont(i + 2, 128, 191)
                  /\ cont(i + 3, 128, 191)
                  /\ utf8_valid_from(b, i + 4)
           ELSE FALSE

\* String::from_utf8(bytes): the same bytes as a String, or Err
from_utf8(bytes) ==
  IF utf8_valid_from(bytes, 1)
    THEN [ok |-> TRUE, string |-> bytes]
    ELSE [ok |-> FALSE, string |-> <<>>]

\* faulty variant: the exit status is not looked at
get_entitlements_ignore_status(out) ==
  IF ~out.spawn_ok
    THEN [ok |-> FALSE, err |-> <<Msg(ExecFailed)>>, value |-> NoValue,
          spawned |-> 0, parsed |-> 0]
  ELSE IF out.stdout.plist = ParseError
    THEN [ok |-> FALSE, err |-> <<Msg(MalformedEntitlements)>>, value |-> NoValue,
          spawned |-> 1, parsed |-> 1]
  ELSE [ok |-> TRUE, err |-> <<>>, value |-> out.stdout.plist,
        spawned |-> 1, parsed |-> 1]

\* faulty variant: a root that is no dictionary is replaced by an empty dictionary
get_entitlements_root_default(out) ==
  IF ~out.spawn_ok
    THEN [ok |-> FALSE, err |-> <<Msg(ExecFailed)>>, value |-> NoValue,
          spawned |-> 0, parsed |-> 0]
  ELSE IF out.status # 0
    THEN LET stdout == from_utf8(out.stdout.bytes)
             stderr == from_utf8(out.stderr)
         IN  [ok |-> FALSE,
              err |-> IF ~stdout.ok THEN <<Msg(StdoutNotUtf8)>>
                      ELSE IF ~stderr.ok THEN <<Msg(StderrNotUtf8)>>
                      ELSE << [msg |-> InspectionFailed, status |-> out.status,
                               stdout |-> stdout.string, stderr |-> stderr.string] >>,
              value |-> NoValue, spawned |-> 1, parsed |-> 0]
  ELSE IF out.stdout.plist = ParseError
    THEN [ok |-> FALSE, err |-> <<Msg(MalformedEntitlements)>>, value |-> NoValue,
          spawned |-> 1, parsed |-> 1]
  ELSE [ok |-> TRUE, err |-> <<>>,
        value |-> Dictionary(as_dictionary(out.stdout.plist).dict),
        spawned |-> 1, parsed |-> 1]

\* get_entitlements(app_path), given what running codesign on app_path
\* yields: the Result, and how many processes ran and parses were made
get_entitlements(out) ==
  IF ~out.spawn_ok
    THEN [ok |-> FALSE, err |-> <<Msg(ExecFailed)>>, value |-> NoValue,
          spawned |-> 0, parsed |-> 0]
  ELSE IF out.status # 0
    THEN LET stdout == from_utf8(out.stdout.bytes)
             stderr == from_utf8(out.stderr)
         IN  [ok |-> FALSE,
              err |-> IF ~stdout.ok THEN <<Msg(StdoutNotUtf8)>>
                      ELSE IF ~stderr.ok THEN <<Msg(StderrNotUtf8)>>
                      ELSE << [msg |-> InspectionFailed, status |-> out.status,
                               stdout |-> stdout.string, stderr |-> stderr.string] >>,
              value |-> NoValue, spawned |-> 1, parsed |-> 0]
  ELSE IF out.stdout.plist = ParseError
    THEN [ok |-> FALSE, err |-> <<Msg(MalformedEntitlements)>>, value |-> NoValue,
          spawned |-> 1, parsed |-> 1]
  ELSE [ok |-> TRUE, err |-> <<>>, value |-> out.stdout.plist,
        spawned |-> 1, parsed |-> 1]

-----------------------------------------------------------------------------
(* The serializer and the printer *)

Token(tag, key, scalar) == [tag |-> tag, key |-> key, scalar |-> scalar]

\* plist::to_writer_xml(writer, value): the events written, in order
to_writer_xml(value) ==
  LET d == value.dict
      body == IF value.type = "Dictionary"
                THEN <<Token("dict", <<>>, "")>>
                     \o [i \in 1..(2 * Len(d)) |->
                          IF i % 2 = 1
                            THEN Token("key", d[(i + 1) \div 2].key, "")
                            ELSE Token(d[i \div 2].value.type, <<>>,
                                       d[i \div 2].value.scalar)]
                     \o <<Token("/dict", <<>>, "")>>
                ELSE <<Token(value.type, <<>>, value.scalar)>>
  IN  <<Token("plist", <<>>, "")>> \o body \o <<Token("/plist", <<>>, "")>>

Line(text, arg) == [text |-> text, arg |-> arg]

\* the println! calls of the DryRun arm
report(provisioned) ==
  IF provisioned = <<>>
    THEN <<Line("No provisioned entitlements found", <<>>)>>
    ELSE <<Line("Provisioned entitlements:", <<>>)>>
         \o [i \in 1..Len(provisioned) |-> Line("- ", provisioned[i])]

-----------------------------------------------------------------------------
(* Inputs: what the inspector and the file system present to one invocation *)

\* keys the enumerated dictionaries draw from: the keys of the test fixture
InspectorKeys ==
  { com_apple_application_identifier,
    com_apple_developer_aps_environment,
    com_apple_developer_team_identifier,
    com_apple_security_automation_apple_events,
    com_apple_security_device_audio_input,
    com_apple_security_device_camera }

EntryValues == { Boolean, String("production") }

Entries == { Entry(k, v) : k \in InspectorKeys, v \in EntryValues }

\* dictionaries of at most MaxLen entries with pairwise distinct keys
Dictionaries ==
  UNION { { d \in [1..n -> Entries] :
              \A i, j \in 1..n : d[i].key = d[j].key => i = j } : n \in 0..MaxLen }

\* the dictionary of the tests at main.rs:167 and main.rs:176
TestFixture ==
  Dictionary(<< Entry(com_apple_application_identifier, String("AAAAAAAAAA.com.example.example")),
                Entry(com_apple_developer_aps_environment, String("production")),
                Entry(com_apple_developer_team_identifier, String("AAAAAAAAAA")),
                Entry(com_apple_security_automation_apple_events, Boolean),
                Entry(com_apple_security_device_audio_input, Boolean),
                Entry(com_apple_security_device_camera, Boolean) >>)

NonDictionaryRoots == { Array, String("production"), Boolean }

\* stream contents: "", "err", "e-acute", a truncated sequence, two bytes
\* that never occur in UTF-8
ByteSamples == { <<>>, <<101, 114, 114>>, <<195, 169>>, <<195>>, <<255, 254>> }

Out(status, bytes, plist, stderr) ==
  [spawn_ok |-> TRUE, status |-> status,
   stdout |-> [bytes |-> bytes, plist |-> plist], stderr |-> stderr]

\* Command::output() returned Err: no process ran
SpawnFailure ==
  [spawn_ok |-> FALSE, status |-> -1,
   stdout |-> [bytes |-> <<>>, plist |-> ParseError], stderr |-> <<>>]

\* stdout is kept as the two things the program does with it: its bytes,
\* for String::from_utf8, and what plist::from_bytes makes of it
Outputs ==
  {SpawnFailure}
  \cup { Out(0, <<60, 63>>, p, <<>>) :
           p \in { Dictionary(d) : d \in Dictionaries }
                 \cup NonDictionaryRoots \cup {TestFixture, ParseError} }
  \cup { Out(0, <<255, 254>>, p, <<101, 114, 114>>) :
           p \in {TestFixture, Array, ParseError} }
  \cup { Out(s, o, p, e) : s \in {1, 3}, o \in ByteSamples,
                           p \in {TestFixture, Array, ParseError}, e \in ByteSamples }

NoFile == [exists |-> FALSE, content |-> <<>>]

Files == { NoFile, [exists |-> TRUE, content |-> <<Token("old", <<>>, "")>>] }

-----------------------------------------------------------------------------
(* main *)

\* faulty variant: the output file is created before the entitlements are read
StripArm_create_first ==
  << "File::create", "get_entitlements", "remove_provisioned_entitlements",
     "to_writer_xml" >>

\* the calls of the Strip arm, in order
StripArm ==
  << "get_entitlements", "remove_provisioned_entitlements", "File::create",
     "to_writer_xml" >>

\* the calls of the DryRun arm, in order
DryRunArm == << "get_entitlements", "get_provisioned_entitlements", "println" >>

\* the call of the Completions arm
CompletionsArm == << "generate" >>

Arm(c) ==
  CASE c = "Strip" -> StripArm
    [] c = "DryRun" -> DryRunArm
    [] OTHER -> CompletionsArm

\* the call main is at, "return" after the last
Current == IF pc <= Len(Arm(command)) THEN Arm(command)[pc] ELSE "return"

\* the call main makes next
Step == IF exit = "running" THEN Current ELSE "exited"

\* the call has returned Ok
Done(step) == \E i \in 1..Len(Arm(command)) : Arm(command)[i] = step /\ i < pc

\* the call has returned, Ok or Err
Ran(step) == Done(step) \/ (exit = "err" /\ Current = step)

Advance == pc' = pc + 1 /\ exit' = exit /\ err' = err

\* the ? operator: main returns the error
Fail(e) == pc' = pc /\ exit' = "err" /\ err' = e

Init ==
  /\ pc = 1
  /\ exit = "running"
  /\ command \in {"Strip", "DryRun", "Completions"}
  /\ output \in IF command = "Completions" THEN {SpawnFailure} ELSE Outputs
  /\ file \in IF command = "Strip" THEN Files ELSE {NoFile}
  /\ spawned = 0
  /\ parsed = 0
  /\ entitlements = NoValue
  /\ provisioned_entitlements = <<>>
  /\ err = <<>>
  /\ fileOps = <<>>
  /\ printed = <<>>

GetEntitlements ==
  /\ Step = "get_entitlements"
  /\ LET r == get_entitlements(output)
     IN  /\ spawned' = spawned + r.spawned
         /\ parsed' = parsed + r.parsed
         /\ IF r.ok
              THEN entitlements' = r.value /\ Advance
              ELSE entitlements' = entitlements /\ Fail(<<Msg(GetFailed)>> \o r.err)
  /\ UNCHANGED << command, output, provisioned_entitlements, file, fileOps, printed >>

RemoveProvisionedEntitlements ==
  /\ Step = "remove_provisioned_entitlements"
  /\ LET r == remove_provisioned_entitlements(entitlements)
     IN  /\ entitlements' = r.entitlements
         /\ IF r.ok THEN Advance ELSE Fail(<<Msg(RemoveFailed)>> \o r.err)
  /\ UNCHANGED << command, output, spawned, parsed, provisioned_entitlements,
                  file, fileOps, printed >>

CreateFile ==
  /\ Step = "File::create"
  /\ \E created \in BOOLEAN :
       IF created
         THEN /\ file' = [exists |-> TRUE, content |-> <<>>]
              /\ fileOps' = Append(fileOps, "create")
              /\ Advance
         ELSE /\ UNCHANGED << file, fileOps >>
              /\ Fail(<<Msg(CreateFailed)>>)
  /\ UNCHANGED << command, output, spawned, parsed, entitlements,
                  provisioned_entitlements, printed >>

\* the writer may fail after any number of events have reached the file
WriteXml ==
  /\ Step = "to_writer_xml"
  /\ LET events == to_writer_xml(entitlements)
     IN  \E n \in 0..Len(events) :
           /\ file' = [file EXCEPT !.content = SubSeq(events, 1, n)]
           /\ fileOps' = IF n > 0 THEN Append(fileOps, "write") ELSE fileOps
           /\ IF n = Len(events) THEN Advance ELSE Fail(<<Msg(WriteFailed)>>)
  /\ UNCHANGED << command, output, spawned, parsed, entitlements,
                  provisioned_entitlements, printed >>

GetProvisionedEntitlements ==
  /\ Step = "get_provisioned_entitlements"
  /\ LET r == get_provisioned_entitlements(entitlements)
     IN  /\ provisioned_entitlements' = r.value
         /\ IF r.ok THEN Advance ELSE Fail(<<Msg(ListFailed)>> \o r.err)
  /\ UNCHANGED << command, output, spawned, parsed, entitlements, file, fileOps,
                  printed >>

Println ==
  /\ Step = "println"
  /\ printed' = printed \o report(provisioned_entitlements)
  /\ Advance
  /\ UNCHANGED << command, output, spawned, parsed, entitlements,
                  provisioned_entitlements, file, fileOps >>

Completions ==
  /\ Step = "generate"
  /\ printed' = Append(printed, Line("completions", <<>>))
  /\ Advance
  /\ UNCHANGED << command, output, spawned, parsed, entitlements,
                  provisioned_entitlements, file, fileOps >>

\* Ok(()) at the end of main
Return ==
  /\ Step = "return"
  /\ exit' = "ok"
  /\ UNCHANGED << pc, command, output, spawned, parsed, entitlements,
                  provisioned_entitlements, err, file, fileOps, printed >>

Next ==
  \/ GetEntitlements
  \/ RemoveProvisionedEntitlements
  \/ CreateFile
  \/ WriteXml
  \/ GetProvisionedEntitlements
  \/ Println
  \/ Completions
  \/ Return

Spec == Init /\ [][Next]_vars

-----------------------------------------------------------------------------
(* Properties *)

\* what plist::from_bytes made of the inspector's standard output
Input == output.stdout.plist

IsProvisioned(k) == k \in ProvisionedKeySet

\* the keys of d that are not provisioned, in d's order
Surviving(d) == SelectSeq(Keys(d), LAMBDA k : ~IsProvisioned(k))

Range(s) == { s[i] : i \in 1..Len(s) }

StripReturnedOk == command = "Strip" /\ Done("remove_provisioned_entitlements")

\* C1: once remove_provisioned_entitlements has returned Ok, no key of the
\* Provisioned Entitlement Key Set is in the dictionary, whether or not it was
\* there before; and with a dictionary root the call never fails, whichever
\* keys are absent.
C1_NoProvisionedKeyRemains ==
  /\ StripReturnedOk =>
       \A k \in ProvisionedKeySet : ~contains_key(entitlements.dict, k)
  /\ (command = "Strip" /\ Ran("remove_provisioned_entitlements")
        /\ Input.type = "Dictionary") => StripReturnedOk

C1_Witness ==
  /\ StripReturnedOk
  /\ contains_key(Input.dict, com_apple_developer_team_identifier)
  /\ ~contains_key(Input.dict, com_apple_application_identifier)
  /\ KeySet(entitlements.dict) # {}

\* C2 as stated: after strip the keys that are not provisioned are in the
\* relative order they had in the input dictionary.
C2_OrderPreserved ==
  StripReturnedOk => Keys(entitlements.dict) = Surviving(Input.dict)

\* no provisioned key comes before a key that is not provisioned
ProvisionedKeysLast(d) ==
  \A i, j \in 1..Len(d) :
    (IsProvisioned(d[i].key) /\ ~IsProvisioned(d[j].key)) => j < i

\* C2 amended: after strip the keys are the input's keys that are not
\* provisioned, each once; they are in the input's relative order when no
\* provisioned key precedes a key that is not provisioned (so also when none
\* is present); otherwise the order may differ, and for the test fixture it
\* is camera, audio-input, apple-events.
C2_OrderPreservedWhenProvisionedLast ==
  StripReturnedOk =>
    /\ Range(Keys(entitlements.dict)) = Range(Surviving(Input.dict))
    /\ Len(entitlements.dict) = Len(Surviving(Input.dict))
    /\ ProvisionedKeysLast(Input.dict) =>
         Keys(entitlements.dict) = Surviving(Input.dict)
    /\ Input = TestFixture =>
         Keys(entitlements.dict) = << com_apple_security_device_camera,
                                      com_apple_security_device_audio_input,
                                      com_apple_security_automation_apple_events >>

C2_Witness ==
  /\ StripReturnedOk
  /\ ProvisionedKeysLast(Input.dict)
  /\ Len(entitlements.dict) >= 2
  /\ Len(Input.dict) > Len(entitlements.dict)

\* C3: after strip the key set is the input's key set minus the provisioned
\* keys, every key left has the value it had, and a dictionary without
\* provisioned keys is left as it was.
C3_OtherKeysAndValuesPreserved ==
  StripReturnedOk =>
    /\ KeySet(entitlements.dict) = KeySet(Input.dict) \ ProvisionedKeySet
    /\ Cardinality(KeySet(entitlements.dict)) = Len(entitlements.dict)
    /\ \A k \in KeySet(entitlements.dict) :
         Get(entitlements.dict, k) = Get(Input.dict, k)
    /\ (KeySet(Input.dict) \cap ProvisionedKeySet = {}) => entitlements = Input

C3_Witness ==
  /\ StripReturnedOk
  /\ Len(entitlements.dict) = 2
  /\ Len(Input.dict) = 3
  /\ IsProvisioned(Input.dict[1].key)
  /\ Input.dict[2].value # Input.dict[3].value

\* C4: stripping a stripped dictionary returns Ok and changes nothing:
\* strip(strip(D)) = strip(D) in keys, values and order, and so in the
\* document written.
C4_StripIdempotent ==
  StripReturnedOk =>
    LET once  == remove_provisioned_entitlements(Input)
        twice == remove_provisioned_entitlements(once.entitlements)
    IN  /\ entitlements = once.entitlements
        /\ twice = once
        /\ to_writer_xml(twice.entitlements) = to_writer_xml(entitlements)

C4_Witness ==
  /\ StripReturnedOk
  /\ Cardinality(KeySet(Input.dict) \cap ProvisionedKeySet) >= 2
  /\ entitlements.dict # <<>>

\* C5: get_provisioned_entitlements returns the keys of the Provisioned
\* Entitlement Key Set that are in D, each once, in the order of the key set,
\* whatever the order of D's keys.
C5_ListIsIntersectionInKeySetOrder ==
  (command = "DryRun" /\ Done("get_provisioned_entitlements")) =>
    provisioned_entitlements =
      SelectSeq(PROVISIONED_ENTITLEMENTS, LAMBDA k : k \in KeySet(entitlements.dict))

C5_Witness ==
  /\ command = "DryRun"
  /\ Done("get_provisioned_entitlements")
  /\ Len(provisioned_entitlements) = 2
  /\ Len(entitlements.dict) = 3
  /\ entitlements.dict[1].key = provisioned_entitlements[2]
  /\ entitlements.dict[3].key = provisioned_entitlements[1]

\* every key of the constant is strictly below every later one
KeysStrictlyIncreasing ==
  \A i, j \in 1..Len(PROVISIONED_ENTITLEMENTS) :
    i < j => ~StrLe(PROVISIONED_ENTITLEMENTS[j], PROVISIONED_ENTITLEMENTS[i])

\* C6: PROVISIONED_ENTITLEMENTS is sorted lexicographically and has no
\* duplicate key: both tests of the constant pass, every key is strictly
\* below every later one, and so is every list the DryRun arm obtains.
C6_KeySetSortedAndUnique ==
  /\ test_provisioned_entitlements_sorted
  /\ test_provisioned_entitlements_unique
  /\ KeysStrictlyIncreasing
  /\ \A i, j \in 1..Len(provisioned_entitlements) :
       i < j => ~StrLe(provisioned_entitlements[j], provisioned_entitlements[i])

C6_Witness ==
  /\ command = "DryRun"
  /\ Done("println")
  /\ Len(printed) = 4

\* the inspector exited with status 0 and its output parsed to a value whose
\* root is no dictionary
NonDictionaryRootCase ==
  /\ command \in {"Strip", "DryRun"}
  /\ output.spawn_ok
  /\ output.status = 0
  /\ Input.type \notin {"Dictionary", "ParseError"}

\* C7 as stated: in that case get_entitlements itself fails with
\* MalformedEntitlements and returns no value to its caller.
C7_ExtractRejectsNonDictionary ==
  (NonDictionaryRootCase /\ Ran("get_entitlements")) =>
    /\ ~Done("get_entitlements")
    /\ err = <<Msg(GetFailed), Msg(MalformedEntitlements)>>

\* C7 amended: in that case get_entitlements returns the value as it is; the
\* filter call that follows fails with NotADictionary, so the flow ends in an
\* error with nothing written or printed.
C7_NonDictionaryRejectedByFilter ==
  (NonDictionaryRootCase /\ Ran("get_entitlements")) =>
    /\ Done("get_entitlements")
    /\ entitlements = Input
    /\ exit # "ok"
    /\ exit = "err" =>
         /\ Len(err) = 2
         /\ err[1].msg \in {RemoveFailed, ListFailed}
         /\ err[2].msg = NotADictionary
         /\ fileOps = <<>>
         /\ printed = <<>>

C7_Witness ==
  /\ NonDictionaryRootCase
  /\ command = "Strip"
  /\ Input = Array
  /\ exit = "err"

\* C8 as stated: whenever a step of the Strip flow fails, nothing has been
\* written to the output path.
C8_NothingWrittenOnFailure ==
  (command = "Strip" /\ exit = "err") => "write" \notin Range(fileOps)

\* C8 amended: the output file is created and written only after extraction
\* and strip have both returned Ok; when extraction, strip or the creation of
\* the file fails the output path is untouched; when the serializer fails the
\* file has been created and holds a proper prefix of the document, possibly
\* empty; on success it holds the whole document.
C8_WrittenOnlyAfterStrip ==
  /\ fileOps # <<>> =>
       /\ command = "Strip"
       /\ Done("get_entitlements")
       /\ StripReturnedOk
       /\ fileOps[1] = "create"
  /\ fileOps = <<>> => file \in Files
  /\ (command = "Strip" /\ exit = "err" /\ Current # "to_writer_xml") =>
       fileOps = <<>>
  /\ (command = "Strip" /\ exit = "err" /\ Current = "to_writer_xml") =>
       /\ file.exists
       /\ Len(file.content) < Len(to_writer_xml(entitlements))
       /\ file.content = SubSeq(to_writer_xml(entitlements), 1, Len(file.content))
  /\ (command = "Strip" /\ exit = "ok") =>
       /\ file = [exists |-> TRUE, content |-> to_writer_xml(entitlements)]
       /\ fileOps = <<"create", "write">>

C8_Witness ==
  /\ command = "Strip"
  /\ exit = "err"
  /\ Current = "to_writer_xml"
  /\ Len(file.content) = 3
  /\ Input.type = "Dictionary"
  /\ Len(Input.dict) = 3

\* the inspector exited with another status than 0 and both streams are
\* valid UTF-8
InspectionFailedCase ==
  /\ command \in {"Strip", "DryRun"}
  /\ output.spawn_ok
  /\ output.status # 0
  /\ from_utf8(output.stdout.bytes).ok
  /\ from_utf8(output.stderr).ok

\* C9: in that case get_entitlements fails with InspectionFailed carrying the
\* exit status and both streams as text; the output is not parsed; one
\* process has run, and no call runs more than one.
C9_InspectionFailedCarriesStreams ==
  /\ spawned <= 1
  /\ (InspectionFailedCase /\ Step # "get_entitlements") =>
       /\ exit = "err"
       /\ Current = "get_entitlements"
       /\ err = << Msg(GetFailed),
                   [msg |-> InspectionFailed, status |-> output.status,
                    stdout |-> output.stdout.bytes, stderr |-> output.stderr] >>
       /\ parsed = 0
       /\ spawned = 1
       /\ entitlements = NoValue
       /\ fileOps = <<>>
       /\ printed = <<>>

C9_Witness ==
  /\ InspectionFailedCase
  /\ exit = "err"
  /\ output.status = 3
  /\ output.stdout.bytes = <<195, 169>>
  /\ output.stderr = <<101, 114, 114>>
  /\ Input = TestFixture

\* C10: remove_provisioned_entitlements and get_provisioned_entitlements fail
\* with NotADictionary when the root of the value is no dictionary; the value
\* is left as it was and no key list is returned.
C10_FilterRejectsNonDictionary ==
  (command \in {"Strip", "DryRun"} /\ Done("get_entitlements")
     /\ entitlements.type # "Dictionary") =>
    /\ ~Done("remove_provisioned_entitlements")
    /\ ~Done("get_provisioned_entitlements")
    /\ exit # "ok"
    /\ entitlements = Input
    /\ provisioned_entitlements = <<>>
    /\ printed = <<>>
    /\ exit = "err" =>
         err = << Msg(IF command = "Strip" THEN RemoveFailed ELSE ListFailed),
                  Msg(NotADictionary) >>

C10_Witness ==
  /\ command = "DryRun"
  /\ exit = "err"
  /\ Len(err) = 2
  /\ err[2].msg = NotADictionary
  /\ entitlements = String("production")

====
